---- MODULE Spec2Model ----
(***************************************************************************)
(* Model of src/tools/common.ts: the nine tool handlers of the browser     *)
(* tool catalog (navigate, go back/forward, wait, press key, save as PDF,  *)
(* close, choose file, install), their zod schemas, and the BrowserContext *)
(* and Tab operations the handlers call.                                   *)
(*                                                                         *)
(* One step of the model is one whole tool invocation (handle(context,     *)
(* params) run to completion), or one event of the page (a file chooser    *)
(* opening).  `last` holds the outcome of the latest invocation: the tool, *)
(* the raw params it was given, the result kind, the response text, the    *)
(* tab it obtained and the browser calls it issued, in order.              *)
(***************************************************************************)
EXTENDS Integers, Sequences, FiniteSets, TLC

VARIABLES
    tabs,           \* Context: every tab ever created, by handle 1..Len(tabs)
    currentTabPtr,  \* Context: the current-tab pointer (NoTab when none)
    installed,      \* Context: whether install() has completed
    last            \* outcome of the latest tool invocation

vars == <<tabs, currentTabPtr, installed, last>>

----------------------------------------------------------------------------
(* Bounds of the model *)

\* tabs the context may create over a run
MaxTabs == 2
\* requested wait times range over -NegTimes .. MaxTime seconds
MaxTime == 12
NegTimes == 1

----------------------------------------------------------------------------
(* JSON values of raw params.  A value carries its primitive kind; `s`, `n` *)
(* and `a` hold the string, the number or the array elements.               *)

Str(x)  == [kind |-> "string", s |-> x, n |-> 0, a |-> <<>>]
Num(x)  == [kind |-> "number", s |-> "", n |-> x, a |-> <<>>]
Arr(xs) == [kind |-> "array", s |-> "", n |-> 0, a |-> xs]
EStr(x) == [kind |-> "string", s |-> x, n |-> 0]
ENum(x) == [kind |-> "number", s |-> "", n |-> x]

\* the params record with no field
NoParams == <<>>

\* a record with one more field, not declared by any schema
WithExtra(S) == S \cup {p @@ ("extra" :> Num(1)) : p \in S}

GoodUrls == {"https://example.com", "https://a.test/x"}
BadUrls  == {"not a url"}
Urls     == GoodUrls \cup BadUrls
Keys     == {"Enter", "a"}
Widths   == {800, 1400}
Times    == (0 - NegTimes) .. MaxTime
PathLists == {<<>>, <<EStr("/a.txt")>>, <<EStr("/a.txt"), EStr("/b.txt")>>}

ToolNames == {"browser_navigate", "browser_go_back", "browser_go_forward",
              "browser_wait", "browser_press_key", "browser_save_as_pdf",
              "browser_close", "browser_choose_file", "browser_install"}

\* the raw params each tool is invoked with
RawParams(tool) ==
    CASE tool = "browser_navigate" ->
           WithExtra({NoParams} \cup {("url" :> Str(u)) : u \in Urls}
                                \cup {("url" :> Num(7))})
      [] tool = "browser_wait" ->
           WithExtra({NoParams} \cup {("time" :> Num(t)) : t \in Times}
                                \cup {("time" :> Str("5"))})
      [] tool = "browser_press_key" ->
           WithExtra({NoParams} \cup {("key" :> Str(k)) : k \in Keys}
                                \cup {("key" :> Num(13))})
      [] tool = "browser_save_as_pdf" ->
           WithExtra({NoParams}
                     \cup {("width" :> Num(w)) : w \in Widths}
                     \cup {("width" :> Str("800"))}
                     \cup {("fileName" :> Str("report"))}
                     \cup {("fileName" :> Num(1))}
                     \cup {("width" :> Num(w)) @@ ("fileName" :> Str("report")) : w \in Widths})
      [] tool = "browser_choose_file" ->
           WithExtra({NoParams} \cup {("paths" :> Arr(ps)) : ps \in PathLists}
                                \cup {("paths" :> Str("/a.txt"))}
                                \cup {("paths" :> Arr(<<EStr("/a.txt"), ENum(2)>>))})
      [] OTHER -> WithExtra({NoParams})

----------------------------------------------------------------------------
(* zod schemas *)

ZString(opt) == [type |-> "string", optional |-> opt]
ZNumber(opt) == [type |-> "number", optional |-> opt]
ZStringArray(opt) == [type |-> "array", optional |-> opt]

\* z.string() / z.number() / z.array(z.string()) accept a value of that kind
ZAccepts(z, v) ==
    /\ v.kind = z.type
    /\ z.type = "array" => \A i \in 1..Len(v.a) : v.a[i].kind = "string"

\* z.object(shape).parse(params): every declared field is present with the
\* declared kind, or absent and optional; undeclared fields are dropped.
ZodParse(shape, params) ==
    LET ok == \A f \in DOMAIN shape :
                 IF f \in DOMAIN params THEN ZAccepts(shape[f], params[f])
                                        ELSE shape[f].optional
    IN  [ok |-> ok,
         value |-> [f \in (DOMAIN shape) \cap (DOMAIN params) |-> params[f]]]

navigateSchema   == [url |-> ZString(FALSE)]
goBackSchema     == <<>>
goForwardSchema  == <<>>
waitSchema       == [time |-> ZNumber(FALSE)]
pressKeySchema   == [key |-> ZString(FALSE)]
pdfSchema        == [width |-> ZNumber(TRUE), fileName |-> ZString(TRUE)]
closeSchema      == <<>>
chooseFileSchema == [paths |-> ZStringArray(FALSE)]

----------------------------------------------------------------------------
(* Tab: one browser page and the operations the handlers use on it *)

NoTab == 0

\* viewport of a freshly created page, and the height every handler resizes to
DefaultViewportWidth == 1280
ViewportHeight == 800

NewTab == [closed |-> FALSE, url |-> "about:blank", fileChooser |-> FALSE,
           files |-> <<>>, viewportWidth |-> DefaultViewportWidth]
ClosedTab == [closed |-> TRUE, url |-> "", fileChooser |-> FALSE,
              files |-> <<>>, viewportWidth |-> 0]

Call(op, s, n, h, a) == [op |-> op, s |-> s, n |-> n, h |-> h, a |-> a]

\* layout of the loaded document: its content area, reflowed to the viewport
PageArea(url) ==
    CASE url = "https://example.com" -> 1120000
      [] url = "https://a.test/x" -> 2240000
      [] OTHER -> 0

Max2(a, b) == IF a >= b THEN a ELSE b
Min2(a, b) == IF a <= b THEN a ELSE b

\* Math.max(document.body.scrollHeight, document.documentElement.scrollHeight)
\* of the page at its present viewport width
scrollHeight(t) == Max2(ViewportHeight, PageArea(t.url) \div t.viewportWidth)

\* tab.navigate(url): the browser rejects a malformed URL at run time
tabNavigate(t, url) ==
    IF url \in GoodUrls
    THEN [ok |-> TRUE, tab |-> [t EXCEPT !.url = url],
          calls |-> <<Call("navigate", url, 0, 0, <<>>)>>]
    ELSE [ok |-> FALSE, tab |-> t,
          calls |-> <<Call("navigate", url, 0, 0, <<>>)>>]

pageGoBack(t) ==
    [ok |-> TRUE, tab |-> t, calls |-> <<Call("goBack", "", 0, 0, <<>>)>>]

pageGoForward(t) ==
    [ok |-> TRUE, tab |-> t, calls |-> <<Call("goForward", "", 0, 0, <<>>)>>]

keyboardPress(t, key) ==
    [ok |-> TRUE, tab |-> t, calls |-> <<Call("keyboard.press", key, 0, 0, <<>>)>>]

\* tab.submitFileChooser(paths): fails when no chooser is pending; otherwise
\* the chooser takes the files and is no longer pending
submitFileChooser(t, paths) ==
    IF t.fileChooser
    THEN [ok |-> TRUE, tab |-> [t EXCEPT !.files = paths, !.fileChooser = FALSE],
          calls |-> <<Call("setFiles", "", 0, 0, paths)>>]
    ELSE [ok |-> FALSE, tab |-> t, calls |-> <<>>]

setViewportSize(t, w) == [t EXCEPT !.viewportWidth = w]

\* the closures the handlers pass to run / runAndWait: the tab operation and
\* the validated params it captured
Closure(op, s, a) == [op |-> op, s |-> s, a |-> a]

callback(action, t) ==
    CASE action.op = "navigate" -> tabNavigate(t, action.s)
      [] action.op = "goBack" -> pageGoBack(t)
      [] action.op = "goForward" -> pageGoForward(t)
      [] action.op = "keyboard.press" -> keyboardPress(t, action.s)
      [] action.op = "submitFileChooser" -> submitFileChooser(t, action.a)

\* ActionRunner: tab.run (wait = FALSE) and tab.runAndWait (wait = TRUE).
\* Unless noClearFileChooser, a stale pending chooser is dropped first; then
\* the action runs; a failure propagates; on success the page is awaited
\* (runAndWait) and the snapshot captured when asked for.
tabRun(t, action, options, wait) ==
    LET t0 == IF options.noClearFileChooser THEN t
                                            ELSE [t EXCEPT !.fileChooser = FALSE]
        r  == callback(action, t0)
    IN  [ok |-> r.ok, tab |-> r.tab, calls |-> r.calls,
         waited |-> wait /\ r.ok,
         snapshot |-> options.captureSnapshot /\ r.ok]

----------------------------------------------------------------------------
(* BrowserContext *)

\* context.ensureTab(): the current tab when there is a valid one, otherwise
\* a new tab, made current
ensureTab ==
    IF currentTabPtr # NoTab /\ ~tabs[currentTabPtr].closed
    THEN [tabs |-> tabs, current |-> currentTabPtr, tab |-> currentTabPtr]
    ELSE [tabs |-> Append(tabs, NewTab), current |-> Len(tabs) + 1,
          tab |-> Len(tabs) + 1]

\* context.currentTab(): the current tab; NoTab stands for the NoActiveTab throw
currentTab == currentTabPtr

\* context.close(): closes every tab and drops the pointer; a no-op when
\* nothing is open
contextClose ==
    [tabs |-> [i \in DOMAIN tabs |-> ClosedTab], current |-> NoTab]

\* context.install(): the channel of the configured browser
Channel == "chrome"

----------------------------------------------------------------------------
(* Outcome of an invocation *)

Text(msg, s, n) == [msg |-> msg, s |-> s, n |-> n]

Outcome(tool, params, result, text, tab, calls, waited, snapshot, timer) ==
    [tool |-> tool, params |-> params, result |-> result, text |-> text,
     tab |-> tab, calls |-> calls, waited |-> waited, snapshot |-> snapshot,
     timer |-> timer]

\* a thrown error: no response text, nothing attached
Thrown(tool, params, kind, tab, calls) ==
    Outcome(tool, params, kind, Text("", "", 0), tab, calls, FALSE, FALSE, <<>>)

\* the result of tab.run / tab.runAndWait as the tool's result
FromRun(tool, params, r, tab, status) ==
    IF r.ok
    THEN Outcome(tool, params, "ok", status, tab, r.calls, r.waited, r.snapshot, <<>>)
    ELSE Thrown(tool, params, "ActionFailed", tab, r.calls)

NoOutcome == Outcome("", NoParams, "none", Text("", "", 0), NoTab, <<>>, FALSE, FALSE, <<>>)

Init ==
    /\ tabs = <<>>
    /\ currentTabPtr = NoTab
    /\ installed = FALSE
    /\ last = NoOutcome

----------------------------------------------------------------------------
(* Tool handlers: handle(context, params) *)

\* navigate with the tab obtained before the params are validated
navigate_ensureTabFirst(params, captureSnapshot) ==
    LET e == ensureTab
        v == ZodParse(navigateSchema, params) IN
    IF ~v.ok
    THEN /\ Len(e.tabs) <= MaxTabs
         /\ tabs' = e.tabs
         /\ currentTabPtr' = e.current
         /\ last' = Thrown("browser_navigate", params, "InvalidParams", NoTab, <<>>)
         /\ UNCHANGED installed
    ELSE LET url == v.value.url.s
             r == tabRun(e.tabs[e.tab], Closure("navigate", url, <<>>),
                         [captureSnapshot |-> captureSnapshot,
                          noClearFileChooser |-> FALSE], FALSE)
         IN  /\ Len(e.tabs) <= MaxTabs
             /\ tabs' = [e.tabs EXCEPT ![e.tab] = r.tab]
             /\ currentTabPtr' = e.current
             /\ last' = FromRun("browser_navigate", params, r, e.tab,
                                Text("Navigated to", url, 0))
             /\ UNCHANGED installed

navigate(params, captureSnapshot) ==
    LET v == ZodParse(navigateSchema, params) IN
    IF ~v.ok
    THEN /\ last' = Thrown("browser_navigate", params, "InvalidParams", NoTab, <<>>)
         /\ UNCHANGED <<tabs, currentTabPtr, installed>>
    ELSE LET e == ensureTab
             url == v.value.url.s
             r == tabRun(e.tabs[e.tab], Closure("navigate", url, <<>>),
                         [captureSnapshot |-> captureSnapshot,
                          noClearFileChooser |-> FALSE], FALSE)
         IN  /\ Len(e.tabs) <= MaxTabs
             /\ tabs' = [e.tabs EXCEPT ![e.tab] = r.tab]
             /\ currentTabPtr' = e.current
             /\ last' = FromRun("browser_navigate", params, r, e.tab,
                                Text("Navigated to", url, 0))
             /\ UNCHANGED installed

\* goBack on context.ensureTab() in place of context.currentTab()
goBack_ensureTab(params, snapshot) ==
    LET e == ensureTab
        r == tabRun(e.tabs[e.tab], Closure("goBack", "", <<>>),
                    [captureSnapshot |-> snapshot,
                     noClearFileChooser |-> FALSE], TRUE)
    IN  /\ Len(e.tabs) <= MaxTabs
        /\ tabs' = [e.tabs EXCEPT ![e.tab] = r.tab]
        /\ currentTabPtr' = e.current
        /\ last' = FromRun("browser_go_back", params, r, e.tab,
                           Text("Navigated back", "", 0))
        /\ UNCHANGED installed

goBack(params, snapshot) ==
    LET tab == currentTab IN
    IF tab = NoTab
    THEN /\ last' = Thrown("browser_go_back", params, "NoActiveTab", NoTab, <<>>)
         /\ UNCHANGED <<tabs, currentTabPtr, installed>>
    ELSE LET r == tabRun(tabs[tab], Closure("goBack", "", <<>>),
                         [captureSnapshot |-> snapshot,
                          noClearFileChooser |-> FALSE], TRUE)
         IN  /\ tabs' = [tabs EXCEPT ![tab] = r.tab]
             /\ last' = FromRun("browser_go_back", params, r, tab,
                                Text("Navigated back", "", 0))
             /\ UNCHANGED <<currentTabPtr, installed>>

\* goForward on context.ensureTab() in place of context.currentTab()
goForward_ensureTab(params, snapshot) ==
    LET e == ensureTab
        r == tabRun(e.tabs[e.tab], Closure("goForward", "", <<>>),
                    [captureSnapshot |-> snapshot,
                     noClearFileChooser |-> FALSE], TRUE)
    IN  /\ Len(e.tabs) <= MaxTabs
        /\ tabs' = [e.tabs EXCEPT ![e.tab] = r.tab]
        /\ currentTabPtr' = e.current
        /\ last' = FromRun("browser_go_forward", params, r, e.tab,
                           Text("Navigated forward", "", 0))
        /\ UNCHANGED installed

goForward(params, snapshot) ==
    LET tab == currentTab IN
    IF tab = NoTab
    THEN /\ last' = Thrown("browser_go_forward", params, "NoActiveTab", NoTab, <<>>)
         /\ UNCHANGED <<tabs, currentTabPtr, installed>>
    ELSE LET r == tabRun(tabs[tab], Closure("goForward", "", <<>>),
                         [captureSnapshot |-> snapshot,
                          noClearFileChooser |-> FALSE], TRUE)
         IN  /\ tabs' = [tabs EXCEPT ![tab] = r.tab]
             /\ last' = FromRun("browser_go_forward", params, r, tab,
                                Text("Navigated forward", "", 0))
             /\ UNCHANGED <<currentTabPtr, installed>>

\* setTimeout's delay is capped at 10 seconds
MaxWaitMs == 10000

wait(params) ==
    LET v == ZodParse(waitSchema, params) IN
    IF ~v.ok
    THEN /\ last' = Thrown("browser_wait", params, "InvalidParams", NoTab, <<>>)
         /\ UNCHANGED <<tabs, currentTabPtr, installed>>
    ELSE LET time == v.value.time.n IN
         /\ last' = Outcome("browser_wait", params, "ok",
                            Text("Waited for seconds", "", time), NoTab, <<>>,
                            FALSE, FALSE, <<Min2(MaxWaitMs, time * 1000)>>)
         /\ UNCHANGED <<tabs, currentTabPtr, installed>>

pressKey(params, captureSnapshot) ==
    LET v == ZodParse(pressKeySchema, params) IN
    IF ~v.ok
    THEN /\ last' = Thrown("browser_press_key", params, "InvalidParams", NoTab, <<>>)
         /\ UNCHANGED <<tabs, currentTabPtr, installed>>
    ELSE LET tab == currentTab IN
         IF tab = NoTab
         THEN /\ last' = Thrown("browser_press_key", params, "NoActiveTab", NoTab, <<>>)
              /\ UNCHANGED <<tabs, currentTabPtr, installed>>
         ELSE LET key == v.value.key.s
                  r == tabRun(tabs[tab], Closure("keyboard.press", key, <<>>),
                              [captureSnapshot |-> captureSnapshot,
                               noClearFileChooser |-> FALSE], TRUE)
              IN  /\ tabs' = [tabs EXCEPT ![tab] = r.tab]
                  /\ last' = FromRun("browser_press_key", params, r, tab,
                                     Text("Pressed key", key, 0))
                  /\ UNCHANGED <<currentTabPtr, installed>>

\* const numericWidth = validatedParams.width ?? 1400
DefaultPdfWidth == 1400
\* `page-${new Date().toISOString()}`
DefaultFileName == "page-<timestamp>"

\* pdf's browser calls on tab `tab` of `ts`, with the context left at `cur`
pdfOn(params, v, ts, cur, tab, measureFirst) ==
    LET numericWidth == IF "width" \in DOMAIN v.value
                        THEN v.value.width.n ELSE DefaultPdfWidth
        fileName == IF "fileName" \in DOMAIN v.value
                    THEN v.value.fileName.s ELSE DefaultFileName
        t1 == setViewportSize(ts[tab], numericWidth)
        measured == IF measureFirst THEN ts[tab] ELSE t1
        height == scrollHeight(measured)
        resize == Call("setViewportSize", "", numericWidth, ViewportHeight, <<>>)
        measure == Call("evaluate", "", measured.viewportWidth, height, <<>>)
    IN  /\ tabs' = [ts EXCEPT ![tab] = t1]
        /\ currentTabPtr' = cur
        /\ last' = Outcome("browser_save_as_pdf", params, "ok",
              Text("Saved as with width set to px.", fileName, numericWidth),
              tab,
              (IF measureFirst THEN <<measure, resize>> ELSE <<resize, measure>>)
                 \o << Call("pdf", fileName, numericWidth, height, <<>>) >>,
              FALSE, FALSE, <<>>)
        /\ UNCHANGED installed

\* pdf on context.ensureTab() in place of context.currentTab()
pdf_ensureTab(params) ==
    LET v == ZodParse(pdfSchema, params) IN
    IF ~v.ok
    THEN /\ last' = Thrown("browser_save_as_pdf", params, "InvalidParams", NoTab, <<>>)
         /\ UNCHANGED <<tabs, currentTabPtr, installed>>
    ELSE LET e == ensureTab IN
         /\ Len(e.tabs) <= MaxTabs
         /\ pdfOn(params, v, e.tabs, e.current, e.tab, FALSE)

\* pdf measuring the scroll height before it resizes the viewport
pdf_measureFirst(params) ==
    LET v == ZodParse(pdfSchema, params) IN
    IF ~v.ok
    THEN /\ last' = Thrown("browser_save_as_pdf", params, "InvalidParams", NoTab, <<>>)
         /\ UNCHANGED <<tabs, currentTabPtr, installed>>
    ELSE LET tab == currentTab IN
         IF tab = NoTab
         THEN /\ last' = Thrown("browser_save_as_pdf", params, "NoActiveTab", NoTab, <<>>)
              /\ UNCHANGED <<tabs, currentTabPtr, installed>>
         ELSE pdfOn(params, v, tabs, currentTabPtr, tab, TRUE)

pdf(params) ==
    LET v == ZodParse(pdfSchema, params) IN
    IF ~v.ok
    THEN /\ last' = Thrown("browser_save_as_pdf", params, "InvalidParams", NoTab, <<>>)
         /\ UNCHANGED <<tabs, currentTabPtr, installed>>
    ELSE LET tab == currentTab IN
         IF tab = NoTab
         THEN /\ last' = Thrown("browser_save_as_pdf", params, "NoActiveTab", NoTab, <<>>)
              /\ UNCHANGED <<tabs, currentTabPtr, installed>>
         ELSE LET numericWidth == IF "width" \in DOMAIN v.value
                                  THEN v.value.width.n ELSE DefaultPdfWidth
                  fileName == IF "fileName" \in DOMAIN v.value
                              THEN v.value.fileName.s ELSE DefaultFileName
                  t1 == setViewportSize(tabs[tab], numericWidth)
                  height == scrollHeight(t1)
              IN  /\ tabs' = [tabs EXCEPT ![tab] = t1]
                  /\ last' = Outcome("browser_save_as_pdf", params, "ok",
                        Text("Saved as with width set to px.", fileName, numericWidth),
                        tab,
                        << Call("setViewportSize", "", numericWidth, ViewportHeight, <<>>),
                           Call("evaluate", "", t1.viewportWidth, height, <<>>),
                           Call("pdf", fileName, numericWidth, height, <<>>) >>,
                        FALSE, FALSE, <<>>)
                  /\ UNCHANGED <<currentTabPtr, installed>>

\* close that asks for the current tab first, and so throws when none is open
close_currentTab(params) ==
    IF currentTab = NoTab
    THEN /\ last' = Thrown("browser_close", params, "NoActiveTab", NoTab, <<>>)
         /\ UNCHANGED <<tabs, currentTabPtr, installed>>
    ELSE LET c == contextClose IN
         /\ tabs' = c.tabs
         /\ currentTabPtr' = c.current
         /\ last' = Outcome("browser_close", params, "ok", Text("Page closed", "", 0),
                            NoTab, <<>>, FALSE, FALSE, <<>>)
         /\ UNCHANGED installed

close(params) ==
    LET c == contextClose IN
    /\ tabs' = c.tabs
    /\ currentTabPtr' = c.current
    /\ last' = Outcome("browser_close", params, "ok", Text("Page closed", "", 0),
                       NoTab, <<>>, FALSE, FALSE, <<>>)
    /\ UNCHANGED installed

\* chooseFile without noClearFileChooser: the runner drops the pending chooser
chooseFile_clears(params, captureSnapshot) ==
    LET v == ZodParse(chooseFileSchema, params) IN
    IF ~v.ok
    THEN /\ last' = Thrown("browser_choose_file", params, "InvalidParams", NoTab, <<>>)
         /\ UNCHANGED <<tabs, currentTabPtr, installed>>
    ELSE LET tab == currentTab IN
         IF tab = NoTab
         THEN /\ last' = Thrown("browser_choose_file", params, "NoActiveTab", NoTab, <<>>)
              /\ UNCHANGED <<tabs, currentTabPtr, installed>>
         ELSE LET paths == v.value.paths.a
                  r == tabRun(tabs[tab], Closure("submitFileChooser", "", paths),
                              [captureSnapshot |-> captureSnapshot,
                               noClearFileChooser |-> FALSE], TRUE)
              IN  /\ tabs' = [tabs EXCEPT ![tab] = r.tab]
                  /\ last' = FromRun("browser_choose_file", params, r, tab,
                                     Text("Chose files", "", Len(paths)))
                  /\ UNCHANGED <<currentTabPtr, installed>>

chooseFile(params, captureSnapshot) ==
    LET v == ZodParse(chooseFileSchema, params) IN
    IF ~v.ok
    THEN /\ last' = Thrown("browser_choose_file", params, "InvalidParams", NoTab, <<>>)
         /\ UNCHANGED <<tabs, currentTabPtr, installed>>
    ELSE LET tab == currentTab IN
         IF tab = NoTab
         THEN /\ last' = Thrown("browser_choose_file", params, "NoActiveTab", NoTab, <<>>)
              /\ UNCHANGED <<tabs, currentTabPtr, installed>>
         ELSE LET paths == v.value.paths.a
                  r == tabRun(tabs[tab], Closure("submitFileChooser", "", paths),
                              [captureSnapshot |-> captureSnapshot,
                               noClearFileChooser |-> TRUE], TRUE)
              IN  /\ tabs' = [tabs EXCEPT ![tab] = r.tab]
                  /\ last' = FromRun("browser_choose_file", params, r, tab,
                                     Text("Chose files", "", Len(paths)))
                  /\ UNCHANGED <<currentTabPtr, installed>>

\* installOk: whether the engine's installation went through
install(params, installOk) ==
    IF installOk
    THEN /\ installed' = TRUE
         /\ last' = Outcome("browser_install", params, "ok",
                            Text("Browser installed", Channel, 0), NoTab, <<>>,
                            FALSE, FALSE, <<>>)
         /\ UNCHANGED <<tabs, currentTabPtr>>
    ELSE /\ last' = Thrown("browser_install", params, "InstallFailed", NoTab, <<>>)
         /\ UNCHANGED <<tabs, currentTabPtr, installed>>

\* the page of the current tab opens a file chooser
fileChooserOpened ==
    /\ currentTabPtr # NoTab
    /\ ~tabs[currentTabPtr].fileChooser
    /\ tabs' = [tabs EXCEPT ![currentTabPtr].fileChooser = TRUE]
    /\ UNCHANGED <<currentTabPtr, installed, last>>

----------------------------------------------------------------------------
(* One invocation of each tool of the catalog *)

InvokeNavigate ==
    \E p \in RawParams("browser_navigate"), s \in BOOLEAN : navigate(p, s)
InvokeGoBack ==
    \E p \in RawParams("browser_go_back"), s \in BOOLEAN : goBack(p, s)
InvokeGoForward ==
    \E p \in RawParams("browser_go_forward"), s \in BOOLEAN : goForward(p, s)
InvokeWait ==
    \E p \in RawParams("browser_wait") : wait(p)
InvokePressKey ==
    \E p \in RawParams("browser_press_key"), s \in BOOLEAN : pressKey(p, s)
InvokePdf ==
    \E p \in RawParams("browser_save_as_pdf") : pdf(p)
InvokeClose ==
    \E p \in RawParams("browser_close") : close(p)
InvokeChooseFile ==
    \E p \in RawParams("browser_choose_file"), s \in BOOLEAN : chooseFile(p, s)
InvokeInstall ==
    \E p \in RawParams("browser_install"), ok \in BOOLEAN : install(p, ok)

\* a step of Next that is a tool invocation: any step but the page's event
Invoke == ~fileChooserOpened

Next ==
    \/ InvokeNavigate
    \/ InvokeGoBack
    \/ InvokeGoForward
    \/ InvokeWait
    \/ InvokePressKey
    \/ InvokePdf
    \/ InvokeClose
    \/ InvokeChooseFile
    \/ InvokeInstall
    \/ fileChooserOpened

Spec == Init /\ [][Next]_vars

TypeOK ==
    /\ currentTabPtr \in 0..Len(tabs)
    /\ Len(tabs) <= MaxTabs
    /\ currentTabPtr # NoTab => ~tabs[currentTabPtr].closed
    /\ \A i \in DOMAIN tabs : i # currentTabPtr => tabs[i].closed
    /\ last.tool \in ToolNames \cup {""}

----------------------------------------------------------------------------
(* The tool catalog as the specification states it: the fields each tool   *)
(* declares and their kinds.  Used by the properties below only.           *)

CurrentTabTools == {"browser_go_back", "browser_go_forward", "browser_press_key",
                    "browser_save_as_pdf", "browser_choose_file"}
ParamTools == {"browser_navigate", "browser_wait", "browser_press_key",
               "browser_save_as_pdf", "browser_choose_file"}
RunnerTools == {"browser_navigate", "browser_go_back", "browser_go_forward",
                "browser_press_key"}

RequiredOf(tool) ==
    CASE tool = "browser_navigate" -> {"url"}
      [] tool = "browser_wait" -> {"time"}
      [] tool = "browser_press_key" -> {"key"}
      [] tool = "browser_choose_file" -> {"paths"}
      [] OTHER -> {}

DeclaredOf(tool) ==
    IF tool = "browser_save_as_pdf" THEN {"width", "fileName"} ELSE RequiredOf(tool)

KindOk(f, v) ==
    CASE f \in {"url", "key", "fileName"} -> v.kind = "string"
      [] f \in {"time", "width"} -> v.kind = "number"
      [] f = "paths" -> v.kind = "array" /\ \A i \in 1..Len(v.a) : v.a[i].kind = "string"
      [] OTHER -> TRUE

\* a required field is missing, or a declared field has the wrong kind
FailsValidation(tool, p) ==
    \/ \E f \in RequiredOf(tool) : f \notin DOMAIN p
    \/ \E f \in DeclaredOf(tool) \cap DOMAIN p : ~KindOk(f, p[f])

RequestedWidth(p) == IF "width" \in DOMAIN p THEN p.width.n ELSE 1400

----------------------------------------------------------------------------
(* C1 *)

\* C1: for every requested wait time t, browser_wait delays min(t, 10)
\* seconds; a negative t is rejected with InvalidParams and starts no delay.
C1_WaitClampedNegativeRejected ==
    (last.tool = "browser_wait" /\ "time" \in DOMAIN last.params
                                /\ last.params.time.kind = "number") =>
        LET t == last.params.time.n IN
        IF t < 0
        THEN last.result = "InvalidParams" /\ last.timer = <<>>
        ELSE last.result = "ok" /\ last.timer = <<1000 * Min2(t, 10)>>

----------------------------------------------------------------------------
(* C2 *)

\* C2: an invocation of a tool with declared parameters whose raw params fail
\* validation ends with InvalidParams, has obtained no tab and issued no
\* browser call, and leaves the tabs, the current-tab pointer and the
\* installation state as they were.
C2_InvalidParamsBeforeAnyAction ==
    [][ (Invoke /\ last'.tool \in ParamTools
                /\ FailsValidation(last'.tool, last'.params)) =>
            /\ last'.result = "InvalidParams"
            /\ last'.tab = NoTab
            /\ last'.calls = <<>>
            /\ last'.timer = <<>>
            /\ UNCHANGED <<tabs, currentTabPtr, installed>> ]_vars

\* a key press without `key` was rejected while a tab was open
C2_Witness ==
    /\ currentTabPtr # NoTab
    /\ last.tool = "browser_press_key"
    /\ last.params = NoParams
    /\ last.result = "InvalidParams"

----------------------------------------------------------------------------
(* C3 *)

\* C3: browser_close leaves every tab closed and no current tab; while there
\* is no current tab every current-tab tool is rejected without a browser
\* call and no tool other than browser_navigate brings a tab back; no browser
\* call ever targets a closed tab; and a browser_navigate that passes
\* validation then runs against a tab created by that invocation, open and
\* current.
C3_NoActionOnClosedTab ==
    [][ Invoke =>
          /\ last'.tool = "browser_close" =>
                /\ currentTabPtr' = NoTab
                /\ \A i \in DOMAIN tabs' : tabs'[i].closed
          /\ last'.calls # <<>> =>
                /\ last'.tab \in DOMAIN tabs'
                /\ ~tabs'[last'.tab].closed
                /\ last'.tab \in DOMAIN tabs => ~tabs[last'.tab].closed
          /\ (currentTabPtr = NoTab /\ last'.tool \in CurrentTabTools) =>
                /\ last'.result \in {"NoActiveTab", "InvalidParams"}
                /\ last'.calls = <<>>
                /\ tabs' = tabs
          /\ (currentTabPtr = NoTab /\ last'.tool # "browser_navigate") =>
                currentTabPtr' = NoTab
          /\ (currentTabPtr = NoTab /\ last'.tool = "browser_navigate"
                                    /\ last'.result # "InvalidParams") =>
                /\ last'.tab = Len(tabs) + 1
                /\ Len(tabs') = Len(tabs) + 1
                /\ ~tabs'[last'.tab].closed
                /\ currentTabPtr' = last'.tab
                /\ last'.calls # <<>> ]_vars

\* a tab was opened and closed, and a go-back issued afterwards was rejected
C3_Witness ==
    /\ Len(tabs) > 0
    /\ tabs[1].closed
    /\ currentTabPtr = NoTab
    /\ last.tool = "browser_go_back"
    /\ last.result = "NoActiveTab"

----------------------------------------------------------------------------
(* C4 *)

\* C4: on a context that has created no tab, each current-tab tool given
\* valid params fails with NoActiveTab, issues no browser call and creates no
\* tab; browser_navigate given valid params creates tab 1 through ensureTab,
\* makes it current and navigates it, and succeeds for a well-formed URL.
C4_FreshContext ==
    [][ (Invoke /\ tabs = <<>> /\ ~FailsValidation(last'.tool, last'.params)) =>
          /\ last'.tool \in CurrentTabTools =>
                /\ last'.result = "NoActiveTab"
                /\ last'.calls = <<>>
                /\ tabs' = <<>>
                /\ currentTabPtr' = NoTab
          /\ last'.tool = "browser_navigate" =>
                /\ last'.result \in {"ok", "ActionFailed"}
                /\ Len(tabs') = 1
                /\ ~tabs'[1].closed
                /\ currentTabPtr' = 1
                /\ last'.tab = 1
                /\ Len(last'.calls) = 1 /\ last'.calls[1].op = "navigate"
                /\ last'.params.url.s \in GoodUrls =>
                      /\ last'.result = "ok"
                      /\ tabs'[1].url = last'.params.url.s ]_vars

\* a PDF export with valid params failed for want of a tab on a fresh context
C4_Witness ==
    /\ tabs = <<>>
    /\ last.tool = "browser_save_as_pdf"
    /\ last.result = "NoActiveTab"

----------------------------------------------------------------------------
(* C5 *)

\* C5: every browser_close returns the 'Page closed' response without error,
\* whether no tab was ever opened, a tab is open or the context is already
\* closed; a browser_close that directly follows a browser_close changes
\* neither the tabs, the current-tab pointer nor the installation state, and
\* with the same params leaves the whole state as the first call left it.
C5_CloseIdempotent ==
    [][ (Invoke /\ last'.tool = "browser_close") =>
          /\ last'.result = "ok"
          /\ last'.text = Text("Page closed", "", 0)
          /\ currentTabPtr' = NoTab
          /\ last.tool = "browser_close" =>
                /\ UNCHANGED <<tabs, currentTabPtr, installed>>
                /\ last.params = last'.params => UNCHANGED vars ]_vars

\* a close that found a tab open has closed it and answered 'Page closed'
C5_Witness ==
    /\ Len(tabs) > 0
    /\ \A i \in DOMAIN tabs : tabs[i].closed
    /\ last.tool = "browser_close"
    /\ last.result = "ok"

----------------------------------------------------------------------------
(* C6 *)

\* C6: for every tool of the catalog, raw params that carry a field the tool
\* does not declare are rejected with InvalidParams and no action runs.
C6_ExtraFieldsRejected ==
    (last.tool \in ToolNames /\ "extra" \in DOMAIN last.params) =>
        /\ last.result = "InvalidParams"
        /\ last.calls = <<>>

----------------------------------------------------------------------------
(* C7 *)

\* C7: browser_navigate given a url string that is not a plausible URL fails
\* with InvalidParams, without obtaining a tab and without a navigation.
C7_ImplausibleUrlRejected ==
    (last.tool = "browser_navigate" /\ "url" \in DOMAIN last.params
        /\ last.params.url.kind = "string" /\ last.params.url.s \notin GoodUrls) =>
        /\ last.result = "InvalidParams"
        /\ last.tab = NoTab
        /\ last.calls = <<>>

----------------------------------------------------------------------------
(* C8 *)

\* what C8 says of browser_choose_file and of the files already submitted: a
\* chooser pending when browser_choose_file is invoked with valid params is
\* still pending when the paths are submitted, so the submission succeeds and
\* the tab holds exactly those files; no invocation of another tool, except a
\* close of the tab, changes the files a tab holds.
C8_Submission ==
    /\ (last'.tool = "browser_choose_file" /\ last'.tab # NoTab
                                           /\ tabs[last'.tab].fileChooser) =>
          /\ last'.result = "ok"
          /\ last'.calls = <<Call("setFiles", "", 0, 0, last'.params.paths.a)>>
          /\ tabs'[last'.tab].files = last'.params.paths.a
    /\ last'.tool \notin {"browser_choose_file", "browser_close"} =>
          \A i \in DOMAIN tabs : tabs'[i].files = tabs[i].files

\* the tools in `tools`, when they act on a tab, leave no chooser pending on it
C8_Clears(tools) ==
    (last'.tool \in tools /\ last'.calls # <<>>) => ~tabs'[last'.tab].fileChooser

----------------------------------------------------------------------------
(* C9 *)

\* C9: a browser_save_as_pdf that succeeds has issued exactly three browser
\* calls, in the order resize viewport, measure height, export PDF; the
\* resize and the export carry the requested width, or 1400 when none was
\* requested; the height was measured at that viewport width and is the
\* page's scroll height there; the export carries the measured height; and
\* the response names the exported file and width.
C9_PdfWidthHeightOrder ==
    (last.tool = "browser_save_as_pdf" /\ last.result = "ok") =>
        LET w == RequestedWidth(last.params)
            c == last.calls
        IN  /\ Len(c) = 3
            /\ c[1].op = "setViewportSize" /\ c[1].n = w
            /\ c[2].op = "evaluate" /\ c[2].n = w
            /\ c[2].h = Max2(800, PageArea(tabs[last.tab].url) \div w)
            /\ c[3].op = "pdf" /\ c[3].n = w /\ c[3].h = c[2].h
            /\ tabs[last.tab].viewportWidth = w
            /\ last.text.n = w /\ last.text.s = c[3].s

\* a page taller than the viewport was exported at the requested width 800
C9_Witness ==
    /\ last.tool = "browser_save_as_pdf"
    /\ last.result = "ok"
    /\ "width" \in DOMAIN last.params
    /\ last.params.width.n = 800
    /\ last.calls[3].h = 1400

----------------------------------------------------------------------------
(* C10 *)

\* C10: the current-tab pointer changes only in a browser_navigate that
\* passed validation and found no current tab (it then points at the tab
\* that invocation created) and in a browser_close (it then points at no
\* tab); tabs are created only by browser_navigate and closed only by
\* browser_close; every other invocation, successful or failed, leaves the
\* pointer as it was.
C10_OnlyNavigateAndCloseMovePointer ==
    [][ /\ currentTabPtr' # currentTabPtr =>
              \/ /\ last'.tool = "browser_navigate"
                 /\ last'.result # "InvalidParams"
                 /\ currentTabPtr = NoTab
                 /\ currentTabPtr' = Len(tabs) + 1
                 /\ Len(tabs') = Len(tabs) + 1
              \/ /\ last'.tool = "browser_close"
                 /\ currentTabPtr' = NoTab
        /\ Len(tabs') # Len(tabs) => last'.tool = "browser_navigate"
        /\ (\E i \in DOMAIN tabs : tabs'[i].closed # tabs[i].closed) =>
              last'.tool = "browser_close"
        /\ (Invoke /\ last'.tool \notin {"browser_navigate", "browser_close"}) =>
              currentTabPtr' = currentTabPtr ]_vars

\* a file submission failed with a tab open, and the tab is still current
C10_Witness ==
    /\ currentTabPtr # NoTab
    /\ ~tabs[currentTabPtr].closed
    /\ last.tool = "browser_choose_file"
    /\ last.result = "ActionFailed"

====
